---- MODULE Spec2Model ----
(***************************************************************************)
(* Model of the AnaCore scripts                                            *)
(*   src/bin/addPanelRG.py            (panel loading, read-to-amplicon     *)
(*                                     matching, per-read loop)            *)
(*   src/bin/Acinome/variantsToFreq.py (allele frequency extraction)       *)
(*                                                                         *)
(* Text is modelled as a sequence of one-character strings, so that        *)
(* strip(), int() and the string order used by sorted() are computed and   *)
(* not assumed.                                                            *)
(***************************************************************************)
EXTENDS Integers, Sequences, FiniteSets, TLC

\* ------------------------------------------------------------------ bounds
\* Largest number of lines of a panel file (SpecPanel).
MaxLines == 3
\* Largest coordinate of an interval or a read (SpecMatch).
MaxPos == 4
\* Largest anchor offset tried on the matcher (SpecMatch).
MaxOffset == 2
\* Largest number of intervals in one chromosome's list (SpecMatch).
MaxRegions == 2
\* Largest number of reads fetched from the alignment file (Spec).
MaxReads == 3
\* Largest number of records of a VCF file (SpecFreq).
MaxRecords == 2
\* How often the sequencer writes a folder of one name (SpecDaemon).
MaxRuns == 2

\* --------------------------------------------------------------- constants
\* The default of --anchor-offset.
DefaultAnchorOffset == 4

\* -------------------------------------------------------------------- text
Digits == {"0", "1", "2", "3", "4", "5", "6", "7", "8", "9"}

Whitespace == {" "}

\* The code point of a character: the order Python compares strings by.
CharCode(c) ==
    CASE c = " " -> 32
      [] c = "+" -> 43
      [] c = "-" -> 45
      [] c = "0" -> 48
      [] c = "1" -> 49
      [] c = "2" -> 50
      [] c = "3" -> 51
      [] c = "4" -> 52
      [] c = "5" -> 53
      [] c = "6" -> 54
      [] c = "7" -> 55
      [] c = "8" -> 56
      [] c = "9" -> 57
      [] c = "A" -> 65
      [] c = "B" -> 66
      [] c = "C" -> 67
      [] c = "X" -> 88
      [] c = "x" -> 120

DigitVal(c) == CharCode(c) - 48

\* str < str in Python: lexicographic by code point, a proper prefix first.
RECURSIVE strLess(_, _)
strLess(s, t) ==
    IF t = << >> THEN FALSE
    ELSE IF s = << >> THEN TRUE
    ELSE IF CharCode(Head(s)) < CharCode(Head(t)) THEN TRUE
    ELSE IF CharCode(Head(s)) > CharCode(Head(t)) THEN FALSE
    ELSE strLess(Tail(s), Tail(t))

RECURSIVE lstrip(_)
lstrip(s) ==
    IF s # << >> /\ Head(s) \in Whitespace THEN lstrip(Tail(s)) ELSE s

RECURSIVE rstrip(_)
rstrip(s) ==
    IF s # << >> /\ s[Len(s)] \in Whitespace
    THEN rstrip(SubSeq(s, 1, Len(s) - 1))
    ELSE s

\* str.strip()
strip(s) == rstrip(lstrip(s))

RECURSIVE digitsValue(_, _)
digitsValue(s, acc) ==
    IF s = << >> THEN acc
    ELSE digitsValue(Tail(s), 10 * acc + DigitVal(Head(s)))

\* int(s): surrounding whitespace, an optional sign, then one or more digits.
\* The result is [ok |-> TRUE, val |-> n], or [ok |-> FALSE] for ValueError.
pyInt(s) ==
    LET t == strip(s)
        signed == t # << >> /\ Head(t) \in {"+", "-"}
        body == IF signed THEN Tail(t) ELSE t
        good == body # << >> /\ \A i \in 1..Len(body) : body[i] \in Digits
    IN  IF ~good THEN [ok |-> FALSE]
        ELSE [ok |-> TRUE,
              val |-> IF signed /\ Head(t) = "-"
                      THEN 0 - digitsValue(body, 0)
                      ELSE digitsValue(body, 0)]

\* ----------------------------------------------------------- panel loading
\* A line of the panel file: head is what line.startswith() sees ("browser ",
\* "track ", "#", or "" for any other line), fields is line.split("\t").
skippedLine(line) == line.head \in {"browser ", "track ", "#"}

\* The area of a data line whose strand is taken from the fifth field.
parseAreaFiveFields(line) ==
    LET fields == [i \in 1..Len(line.fields) |-> strip(line.fields[i])]
        n == Len(fields)
    IN  IF n < 2 THEN [error |-> "IndexError"]
        ELSE IF ~pyInt(fields[2]).ok THEN [error |-> "ValueError"]
        ELSE IF n < 3 THEN [error |-> "IndexError"]
        ELSE IF ~pyInt(fields[3]).ok THEN [error |-> "ValueError"]
        ELSE IF n < 5 THEN [error |-> "IndexError"]
        ELSE [error |-> "none",
              area |-> [region |-> fields[1],
                        start |-> pyInt(fields[2]).val + 1,
                        end |-> pyInt(fields[3]).val,
                        id |-> fields[4],
                        strand |-> fields[5]]]

\* Lines 48-55: the area of one data line, or the exception it raises.
\* The dictionary's values are evaluated in source order.
parseArea(line) ==
    LET fields == [i \in 1..Len(line.fields) |-> strip(line.fields[i])]
        n == Len(fields)
    IN  IF n < 2 THEN [error |-> "IndexError"]
        ELSE IF ~pyInt(fields[2]).ok THEN [error |-> "ValueError"]
        ELSE IF n < 3 THEN [error |-> "IndexError"]
        ELSE IF ~pyInt(fields[3]).ok THEN [error |-> "ValueError"]
        ELSE IF n < 6 THEN [error |-> "IndexError"]
        ELSE [error |-> "none",
              area |-> [region |-> fields[1],
                        start |-> pyInt(fields[2]).val + 1,
                        end |-> pyInt(fields[3]).val,
                        id |-> fields[4],
                        strand |-> fields[6]]]

\* Lines 44-56: the loop over the lines of the file.
RECURSIVE getSelectedAreasFrom(_, _)
getSelectedAreasFrom(lines, selected_areas) ==
    IF lines = << >> THEN [error |-> "none", areas |-> selected_areas]
    ELSE IF skippedLine(Head(lines))
    THEN getSelectedAreasFrom(Tail(lines), selected_areas)
    ELSE LET p == parseArea(Head(lines))
         IN  IF p.error # "none" THEN [error |-> p.error]
             ELSE getSelectedAreasFrom(Tail(lines), Append(selected_areas, p.area))

getSelectedAreas(input_panel) == getSelectedAreasFrom(input_panel, << >>)

\* The sort key of line 65 compared as Python compares tuples.
areaKeyLess(a, b) ==
    \/ strLess(a.region, b.region)
    \/ a.region = b.region /\ a.start < b.start
    \/ a.region = b.region /\ a.start = b.start /\ a.end < b.end

\* Insertion after every element whose key is not greater: a stable sort.
RECURSIVE sortedInsert(_, _)
sortedInsert(sorted, x) ==
    IF sorted = << >> THEN << x >>
    ELSE IF areaKeyLess(x, Head(sorted)) THEN << x >> \o sorted
    ELSE << Head(sorted) >> \o sortedInsert(Tail(sorted), x)

RECURSIVE sortedFrom(_, _)
sortedFrom(areas, acc) ==
    IF areas = << >> THEN acc
    ELSE sortedFrom(Tail(areas), sortedInsert(acc, Head(areas)))

\* A sort that ignores the key: the list as read from the file.
unsortedAreas(areas) == areas

\* Line 65: sorted() is stable, so equal keys keep their file order.
sortedAreas(areas) == sortedFrom(areas, << >>)

\* Lines 67-72: the grouping loop.
RECURSIVE groupByChr(_, _)
groupByChr(areas, area_by_chr) ==
    IF areas = << >> THEN area_by_chr
    ELSE LET curr_area == Head(areas)
             chrom == curr_area.region
             known == IF chrom \in DOMAIN area_by_chr
                      THEN area_by_chr
                      ELSE [c \in DOMAIN area_by_chr \cup {chrom} |->
                               IF c = chrom THEN << >> ELSE area_by_chr[c]]
         IN  groupByChr(Tail(areas),
                        [known EXCEPT ![chrom] = Append(@, curr_area)])

EmptyDict == [c \in {} |-> << >>]

\* Lines 58-74.
getSelectedAreasByChr(input_panel) ==
    LET loaded == getSelectedAreas(input_panel)
    IN  IF loaded.error # "none" THEN [error |-> loaded.error]
        ELSE [error |-> "none",
              area_by_chr |-> groupByChr(sortedAreas(loaded.areas), EmptyDict)]

\* The keys of a dict in iteration order. groupByChr inserts the keys while it
\* walks the sorted list, so the insertion order is the ascending string order.
RECURSIVE keysInOrder(_)
keysInOrder(keys) ==
    IF keys = {} THEN << >>
    ELSE LET first == CHOOSE k \in keys : \A o \in keys \ {k} : strLess(k, o)
         IN  << first >> \o keysInOrder(keys \ {first})

\* Python's None.
None == [none |-> TRUE]

\* ----------------------------------------------------------------- matcher
\* Lines 88-94: the scan of a reverse read; 0 when the loop ends or breaks
\* with overlapped_region still None, else the position of the region.
RECURSIVE scanReverse(_, _, _, _)
scanReverse(regions, i, ref_end, offset) ==
    IF i > Len(regions) THEN 0
    ELSE IF ref_end < regions[i].start THEN 0
    ELSE IF ref_end <= regions[i].end /\ ref_end >= regions[i].end - offset THEN i
    ELSE scanReverse(regions, i + 1, ref_end, offset)

\* The forward scan with the tolerance's far end left out.
RECURSIVE scanForwardStrict(_, _, _, _)
scanForwardStrict(regions, i, ref_start, offset) ==
    IF i > Len(regions) THEN 0
    ELSE IF ref_start < regions[i].start THEN 0
    ELSE IF ref_start >= regions[i].start /\ ref_start < regions[i].start + offset THEN i
    ELSE scanForwardStrict(regions, i + 1, ref_start, offset)

\* Lines 96-103: the scan of a forward read.
RECURSIVE scanForward(_, _, _, _)
scanForward(regions, i, ref_start, offset) ==
    IF i > Len(regions) THEN 0
    ELSE IF ref_start < regions[i].start THEN 0
    ELSE IF ref_start >= regions[i].start /\ ref_start <= regions[i].start + offset THEN i
    ELSE scanForward(regions, i + 1, ref_start, offset)

\* Lines 76-103.
getSourceRegion(read, regions, offset) ==
    LET ref_start == read.reference_start + 1
        ref_end == read.reference_end
        found == IF read.is_reverse
                 THEN scanReverse(regions, 1, ref_end, offset)
                 ELSE scanForward(regions, 1, ref_start, offset)
    IN  IF found = 0 THEN None ELSE regions[found]

\* The strand test with the pair's second read treated as its first.
hasValidStrandAsRead1(read, ampl_region) ==
    IF read.is_reverse THEN ampl_region.strand = << "-" >>
    ELSE ampl_region.strand = << "+" >>

\* Lines 105-127.
hasValidStrand(read, ampl_region) ==
    IF read.is_read1
    THEN IF read.is_reverse
         THEN IF ampl_region.strand = << "-" >> THEN TRUE ELSE FALSE
         ELSE IF ampl_region.strand = << "+" >> THEN TRUE ELSE FALSE
    ELSE IF read.is_reverse
         THEN IF ampl_region.strand = << "+" >> THEN TRUE ELSE FALSE
         ELSE IF ampl_region.strand = << "-" >> THEN TRUE ELSE FALSE

\* ------------------------------------------------------------------- state
VARIABLES
    \* addPanelRG.py __main__
    input_panel,            \* the lines of args.input_panel
    anchor_offset,          \* args.anchor_offset
    pc,                     \* "start", "loaded", "reads", "done", "crashed"
    error,                  \* the exception that ended the run, or "none"
    panel_regions,          \* line 158
    RG_id_by_source,        \* line 161
    new_header_RG,          \* new_header["RG"], lines 167-173
    total_reads, unpaired_reads, unmapped_pairs, out_target_reads,
    reverse_reads, valid_reads, valid_reads_valid_pair,
    valid_reads_by_id,      \* line 163
    FH_out,                 \* the reads written to tmp_aln, in order
    curr_read,              \* the read fetched last, as the loop left it
    n_fetched,              \* how many reads FH_in.fetch() has yielded
    \* getSourceRegion and hasValidStrand called on their own
    m_read, m_regions, m_offset,   \* the arguments
    m_pc,                   \* "start", "matched", "checked"
    overlapped_region,      \* what getSourceRegion returned
    has_valid_strand,       \* what hasValidStrand returned
    \* variantsToFreq.py __main__
    var_files,              \* the VCF files of args.var_files, as parsed
    vtf_pc,                 \* "start", "variants", "aborted"
    vtf_error,              \* the exception that ended the run, or None
    variants,               \* line 27
    \* autoRunWf.py __main__ and the folders it works on
    listened_folder,        \* args.listened_folder: what each filename holds
    analysis_folder,        \* args.analysis_folder: the folders it holds
    storage_folder,         \* args.storage_folder: the raw data it holds
    launched,               \* how often each cmd_analysis was executed
    n_written,              \* how often the sequencer wrote each run folder
    d_pc,                   \* "listing", "pass", "crashed"
    d_error,                \* the exception that ended the daemon, or "none"
    d_todo                  \* the filenames the for loop has yet to visit

panelVars == << input_panel, pc, error, panel_regions >>

headerVars == << RG_id_by_source, new_header_RG >>

countVars == << total_reads, unpaired_reads, unmapped_pairs, out_target_reads,
                reverse_reads, valid_reads, valid_reads_valid_pair >>

readVars == << valid_reads_by_id, FH_out, curr_read, n_fetched >>

mainVars == << panelVars, anchor_offset, headerVars, countVars, readVars >>

matchVars == << m_read, m_regions, m_offset, m_pc, overlapped_region,
               has_valid_strand >>

freqVars == << var_files, vtf_pc, vtf_error, variants >>

folderVars == << listened_folder, analysis_folder, storage_folder, launched,
                n_written >>

daemonVars == << folderVars, d_pc, d_error, d_todo >>

vars == << mainVars, matchVars, freqVars, daemonVars >>

\* ------------------------------------------------------------ panel inputs
DataLine(chrom, start, end, id, strand) ==
    [head |-> "", fields |-> << chrom, start, end, id, << "0" >>, strand >>]

\* The lines panels are made of: data lines that share a chromosome, a start
\* or an id, padded and seven-field lines, header lines, and lines with too
\* few fields or a coordinate that is no integer.
GoodLines ==
    { DataLine(<< "1" >>, << "4" >>, << "9" >>, << "A" >>, << "+" >>),
      DataLine(<< "1" >>, << "4" >>, << "7" >>, << "B" >>, << "-" >>),
      DataLine(<< "1" >>, << "0" >>, << "5" >>, << "C" >>, << "+" >>),
      DataLine(<< "2" >>, << "2" >>, << "6" >>, << "A" >>, << "-" >>),
      DataLine(<< "1", "0" >>, << "1" >>, << "3" >>, << "B" >>, << "+" >>),
      DataLine(<< "1" >>, << " ", "1", "2" >>, << "2", "0", " " >>, << "C" >>, << "-" >>),
      DataLine(<< "2" >>, << "+", "0" >>, << "5" >>, << "C" >>, << "+" >>),
      [head |-> "", fields |-> << << "2" >>, << "3" >>, << "8" >>, << "B" >>,
                                  << "0" >>, << "-" >>, << "3" >> >>] }

HeaderLines ==
    { [head |-> "#", fields |-> << << "x" >> >>],
      [head |-> "track ", fields |-> << << "x" >>, << "x" >> >>],
      [head |-> "browser ", fields |-> << << "x" >> >>] }

BadLines ==
    { [head |-> "", fields |-> << << >> >>],
      [head |-> "", fields |-> << << "1" >>, << "4" >>, << "9" >> >>],
      [head |-> "", fields |-> << << "1" >>, << "4" >>, << "9" >>, << "A" >>, << "0" >> >>],
      [head |-> "", fields |-> << << "1" >>, << "x" >> >>],
      DataLine(<< "1" >>, << "x" >>, << "9" >>, << "A" >>, << "+" >>),
      DataLine(<< "1" >>, << "4" >>, << >>, << "A" >>, << "+" >>),
      DataLine(<< "2" >>, << "4" >>, << "4", "x" >>, << "B" >>, << "-" >>),
      DataLine(<< "2" >>, << "-" >>, << "9" >>, << "B" >>, << "-" >>) }

PanelLines == GoodLines \cup HeaderLines \cup BadLines

\* The panel files of n lines.
PanelFiles(n) == [1..n -> PanelLines]

\* ---------------------------------------------------------------- actions
\* The state of __main__ before line 158.
InitMain ==
    /\ pc = "start"
    /\ error = "none"
    /\ panel_regions = EmptyDict
    /\ RG_id_by_source = EmptyDict
    /\ new_header_RG = << >>
    /\ total_reads = 0
    /\ unpaired_reads = 0
    /\ unmapped_pairs = 0
    /\ out_target_reads = 0
    /\ reverse_reads = 0
    /\ valid_reads = 0
    /\ valid_reads_valid_pair = 0
    /\ valid_reads_by_id = EmptyDict
    /\ FH_out = << >>
    /\ curr_read = None
    /\ n_fetched = 0

\* Line 158: panel_regions = getSelectedAreasByChr( args.input_panel ). An
\* exception leaves panel_regions unassigned and ends the run.
LoadPanel ==
    /\ pc = "start"
    /\ LET loaded == getSelectedAreasByChr(input_panel)
       IN  IF loaded.error # "none"
           THEN /\ pc' = "crashed"
                /\ error' = loaded.error
                /\ UNCHANGED panel_regions
           ELSE /\ pc' = "loaded"
                /\ panel_regions' = loaded.area_by_chr
                /\ UNCHANGED error
    /\ UNCHANGED << input_panel, anchor_offset, headerVars, countVars, readVars >>
    /\ UNCHANGED << matchVars, freqVars, daemonVars >>

\* The matcher's variables while another program runs.
IdleMatch ==
    /\ m_read = None
    /\ m_regions = << >>
    /\ m_offset = 0
    /\ m_pc = "idle"
    /\ overlapped_region = None
    /\ has_valid_strand = FALSE

\* The variables of variantsToFreq.py while another program runs.
IdleFreq ==
    /\ var_files = << >>
    /\ vtf_pc = "idle"
    /\ vtf_error = None
    /\ variants = EmptyDict

\* The daemon's variables while another program runs.
IdleDaemon ==
    /\ listened_folder = << >>
    /\ analysis_folder = {}
    /\ storage_folder = << >>
    /\ launched = << >>
    /\ n_written = << >>
    /\ d_pc = "idle"
    /\ d_error = "none"
    /\ d_todo = {}

\* Panel loading alone, over every panel file of up to MaxLines lines.
InitPanel ==
    /\ \E n \in 0..MaxLines : input_panel \in PanelFiles(n)
    /\ anchor_offset = DefaultAnchorOffset
    /\ InitMain
    /\ IdleMatch
    /\ IdleFreq
    /\ IdleDaemon

SpecPanel == InitPanel /\ [][LoadPanel]_vars

\* ------------------------------------------------------- the read loop
\* str(n) for n >= 0.
RECURSIVE pyStr(_)
pyStr(n) ==
    LET digit(d) == CHOOSE c \in Digits : DigitVal(c) = d
    IN  IF n < 10 THEN << digit(n) >>
        ELSE pyStr(n \div 10) \o << digit(n % 10) >>

\* d[k] = v
dictSet(d, k, v) == [x \in DOMAIN d \cup {k} |-> IF x = k THEN v ELSE d[x]]

\* Lines 169-170: the areas in the order the two loops visit them.
RECURSIVE areasInOrder(_, _)
areasInOrder(regions, chroms) ==
    IF chroms = << >> THEN << >>
    ELSE regions[Head(chroms)] \o areasInOrder(regions, Tail(chroms))

\* Lines 168-173: one read group per area; a later area with the same id
\* overwrites RG_id_by_source[id].
RECURSIVE buildRG(_, _, _, _)
buildRG(areas, RG_idx, header_RG, by_source) ==
    IF areas = << >> THEN [RG |-> header_RG, by_source |-> by_source]
    ELSE LET curr_area == Head(areas)
         IN  buildRG(Tail(areas), RG_idx + 1,
                     Append(header_RG, [ID |-> pyStr(RG_idx), LB |-> curr_area.id]),
                     dictSet(by_source, curr_area.id, pyStr(RG_idx)))

\* Lines 164-173.
BuildHeader ==
    /\ pc = "loaded"
    /\ LET built == buildRG(areasInOrder(panel_regions, keysInOrder(DOMAIN panel_regions)),
                            1, << >>, EmptyDict)
       IN  /\ new_header_RG' = built.RG
           /\ RG_id_by_source' = built.by_source
    /\ pc' = "reads"
    /\ UNCHANGED << input_panel, anchor_offset, error, panel_regions, countVars,
                    readVars, matchVars, freqVars, daemonVars >>

\* The lookup of the read's chromosome without the test of line 184.
sourceRegionUnguarded(read, regions, offset) ==
    IF read.reference_name \in DOMAIN regions
    THEN [error |-> "none",
          region |-> getSourceRegion(read, regions[read.reference_name], offset)]
    ELSE [error |-> "KeyError"]

\* Lines 183-185.
sourceRegionOf(read, regions, offset) ==
    IF read.reference_name \in DOMAIN regions
    THEN [error |-> "none",
          region |-> getSourceRegion(read, regions[read.reference_name], offset)]
    ELSE [error |-> "none", region |-> None]

\* The branches of the loop without the test of line 176.
readCategoryOfAnyRead(read, source_region) ==
    IF ~read.is_paired THEN "unpaired"
    ELSE IF read.is_unmapped \/ read.mate_is_unmapped THEN "unmapped"
    ELSE IF source_region = None THEN "out_target"
    ELSE IF ~hasValidStrand(read, source_region) THEN "reverse"
    ELSE "valid"

\* The branches of the loop with the strand test left out.
readCategoryStrandBlind(read, source_region) ==
    IF read.is_secondary THEN "secondary"
    ELSE IF ~read.is_paired THEN "unpaired"
    ELSE IF read.is_unmapped \/ read.mate_is_unmapped THEN "unmapped"
    ELSE IF source_region = None THEN "out_target"
    ELSE "valid"

\* Lines 176-190: the branch of the loop a read takes.
readCategory(read, source_region) ==
    IF read.is_secondary THEN "secondary"
    ELSE IF ~read.is_paired THEN "unpaired"
    ELSE IF read.is_unmapped \/ read.mate_is_unmapped THEN "unmapped"
    ELSE IF source_region = None THEN "out_target"
    ELSE IF ~hasValidStrand(read, source_region) THEN "reverse"
    ELSE "valid"

\* Lines 175-202: one iteration of the loop over FH_in.fetch(until_eof=True).
ProcessRead(read) ==
    /\ pc = "reads"
    /\ n_fetched < MaxReads
    /\ n_fetched' = n_fetched + 1
    /\ LET looked == IF read.is_secondary \/ ~read.is_paired
                        \/ read.is_unmapped \/ read.mate_is_unmapped
                     THEN [error |-> "none", region |-> None]
                     ELSE sourceRegionOf(read, panel_regions, anchor_offset)
       IN  IF looked.error # "none"
           THEN /\ pc' = "crashed"
                /\ error' = looked.error
                /\ total_reads' = total_reads + 1
                /\ curr_read' = read
                /\ UNCHANGED << unpaired_reads, unmapped_pairs, out_target_reads,
                                reverse_reads, valid_reads, valid_reads_valid_pair,
                                valid_reads_by_id, FH_out >>
           ELSE
           LET source_region == looked.region
               category == readCategory(read, source_region)
               tagged == [read EXCEPT !.RG = RG_id_by_source[source_region.id]]
               qname == read.query_name
               paired == category = "valid" /\ qname \in DOMAIN valid_reads_by_id
               prev_read == valid_reads_by_id[qname]
           IN  /\ UNCHANGED << pc, error >>
               /\ total_reads' = IF category = "secondary" THEN total_reads
                                 ELSE total_reads + 1
               /\ unpaired_reads' = IF category = "unpaired" THEN unpaired_reads + 1
                                    ELSE unpaired_reads
               /\ unmapped_pairs' = IF category = "unmapped" THEN unmapped_pairs + 1
                                    ELSE unmapped_pairs
               /\ out_target_reads' = IF category = "out_target" THEN out_target_reads + 1
                                      ELSE out_target_reads
               /\ reverse_reads' = IF category = "reverse" THEN reverse_reads + 1
                                   ELSE reverse_reads
               /\ valid_reads' = IF category = "valid" THEN valid_reads + 1
                                 ELSE valid_reads
               /\ curr_read' = IF category = "valid" THEN tagged ELSE read
               /\ IF ~paired
                  THEN /\ valid_reads_by_id' =
                            IF category = "valid"
                            THEN dictSet(valid_reads_by_id, qname, tagged)
                            ELSE valid_reads_by_id
                       /\ UNCHANGED << valid_reads_valid_pair, FH_out >>
                  ELSE IF prev_read # None
                  THEN /\ valid_reads_valid_pair' = valid_reads_valid_pair + 2
                       /\ FH_out' = FH_out \o << prev_read, tagged >>
                       /\ valid_reads_by_id' = [valid_reads_by_id EXCEPT ![qname] = None]
                  ELSE /\ FH_out' = Append(FH_out, tagged)
                       /\ UNCHANGED << valid_reads_valid_pair, valid_reads_by_id >>
    /\ UNCHANGED << input_panel, anchor_offset, panel_regions, headerVars, matchVars,
                    freqVars, daemonVars >>

\* An end of the stream that writes the reads still held in the buffer.
FinishFlushing ==
    /\ pc = "reads"
    /\ IF total_reads = 0
       THEN pc' = "crashed" /\ error' = "ZeroDivisionError"
       ELSE pc' = "done" /\ UNCHANGED error
    /\ \E held \in [1..Cardinality({ q \in DOMAIN valid_reads_by_id :
                                       valid_reads_by_id[q] # None })
                     -> { q \in DOMAIN valid_reads_by_id :
                            valid_reads_by_id[q] # None }] :
          /\ \A i, j \in DOMAIN held : i # j => held[i] # held[j]
          /\ FH_out' = FH_out \o [i \in DOMAIN held |-> valid_reads_by_id[held[i]]]
    /\ UNCHANGED << input_panel, anchor_offset, panel_regions, headerVars,
                    countVars, valid_reads_by_id, curr_read, n_fetched,
                    matchVars, freqVars, daemonVars >>

\* Lines 204-217: the end of the stream, the sort of the output and the
\* statistics, whose ratios divide by total_reads.
Finish ==
    /\ pc = "reads"
    /\ IF total_reads = 0
       THEN pc' = "crashed" /\ error' = "ZeroDivisionError"
       ELSE pc' = "done" /\ UNCHANGED error
    /\ UNCHANGED << input_panel, anchor_offset, panel_regions, headerVars,
                    countVars, readVars, matchVars, freqVars, daemonVars >>

\* ----------------------------------------------------------- main inputs
\* Amplicon A on 1:1-10 (+) and B on 1:21-30 (-), C on chromosome 2, given
\* out of order after a header line.
PanelAB ==
    << [head |-> "#", fields |-> << << "x" >> >>],
       DataLine(<< "2" >>, << "0" >>, << "1", "0" >>, << "C" >>, << "+" >>),
       DataLine(<< "1" >>, << "2", "0" >>, << "3", "0" >>, << "B" >>, << "-" >>),
       DataLine(<< "1" >>, << "0" >>, << "1", "0" >>, << "A" >>, << "+" >>) >>

\* The same two amplicons of chromosome 1 under one id.
PanelSameId ==
    << DataLine(<< "1" >>, << "0" >>, << "1", "0" >>, << "A" >>, << "+" >>),
       DataLine(<< "1" >>, << "2", "0" >>, << "3", "0" >>, << "A" >>, << "-" >>) >>

\* A panel whose second line has no strand.
PanelShortLine ==
    << DataLine(<< "1" >>, << "0" >>, << "1", "0" >>, << "A" >>, << "+" >>),
       [head |-> "", fields |-> << << "1" >>, << "2", "0" >>, << "3", "0" >>, << "B" >> >>] >>

MainPanels == { PanelAB, PanelSameId, PanelShortLine }

QueryNames == { "q1", "q2" }

PairedRead(qname, chrom, b, e, rev, r1) ==
    [query_name |-> qname, is_secondary |-> FALSE, is_paired |-> TRUE,
     is_unmapped |-> FALSE, mate_is_unmapped |-> FALSE, reference_name |-> chrom,
     reference_start |-> b, reference_end |-> e, is_reverse |-> rev,
     is_read1 |-> r1, RG |-> << >>]

\* The reads of the alignment file: on chromosome 1, a span anchored on A when
\* forward and on B when reverse (2..28) and one anchored on nothing (11..18);
\* reads on a chromosome the panel does not have; a secondary, an unpaired
\* and two unmapped-pair reads.
AlnReads ==
    { PairedRead(q, << "1" >>, span[1], span[2], rev, r1) :
        q \in QueryNames, span \in { << 2, 28 >>, << 11, 18 >> },
        rev \in BOOLEAN, r1 \in BOOLEAN }
    \cup { PairedRead(q, << "X" >>, 2, 28, FALSE, TRUE) : q \in QueryNames }
    \cup { [PairedRead("q1", << "1" >>, 2, 28, FALSE, TRUE) EXCEPT !.is_secondary = TRUE],
           [PairedRead("q1", << "1" >>, 2, 28, FALSE, TRUE) EXCEPT !.is_paired = FALSE],
           [PairedRead("q1", << "1" >>, 2, 28, FALSE, TRUE) EXCEPT !.is_unmapped = TRUE],
           [PairedRead("q1", << "1" >>, 2, 28, FALSE, TRUE) EXCEPT !.mate_is_unmapped = TRUE] }

Init ==
    /\ input_panel \in MainPanels
    /\ anchor_offset = DefaultAnchorOffset
    /\ InitMain
    /\ IdleMatch
    /\ IdleFreq
    /\ IdleDaemon

Next ==
    \/ LoadPanel
    \/ BuildHeader
    \/ \E read \in AlnReads : ProcessRead(read)
    \/ Finish

Spec == Init /\ [][Next]_vars

\* ---------------------------------------------------- the matcher alone
\* The intervals of one chromosome, as the loader builds them from BED lines
\* whose end is beyond their start.
MatchAreas ==
    { [region |-> << "1" >>, start |-> s, end |-> e, id |-> << "A" >>, strand |-> st] :
        s \in 1..MaxPos, e \in 1..MaxPos, st \in { << "+" >>, << "-" >> } }

isSortedList(regions) ==
    \A i \in 1..Len(regions) : \A j \in 1..Len(regions) :
        i < j => ~areaKeyLess(regions[j], regions[i])

\* The lists of n intervals getSelectedAreasByChr can return for one chromosome.
SortedLists(n) ==
    { regions \in [1..n -> { a \in MatchAreas : a.start <= a.end }] :
        isSortedList(regions) }

\* Mapped reads: 0-based start, end beyond it.
MatchReads ==
    { [reference_start |-> b, reference_end |-> e, is_reverse |-> rev, is_read1 |-> r1] :
        b \in 0..(MaxPos - 1), e \in 1..MaxPos, rev \in BOOLEAN, r1 \in BOOLEAN }

InitMatch ==
    /\ \E n \in 0..MaxRegions : m_regions \in SortedLists(n)
    /\ m_read \in { r \in MatchReads : r.reference_start < r.reference_end }
    /\ m_offset \in 0..MaxOffset
    /\ m_pc = "start"
    /\ overlapped_region = None
    /\ has_valid_strand = FALSE
    /\ input_panel = << >>
    /\ anchor_offset = DefaultAnchorOffset
    /\ InitMain
    /\ IdleFreq
    /\ IdleDaemon

CallGetSourceRegion ==
    /\ m_pc = "start"
    /\ overlapped_region' = getSourceRegion(m_read, m_regions, m_offset)
    /\ m_pc' = "matched"
    /\ UNCHANGED << m_read, m_regions, m_offset, has_valid_strand, mainVars, freqVars,
                    daemonVars >>

\* Line 188: called on the region the matcher returned.
CallHasValidStrand ==
    /\ m_pc = "matched"
    /\ overlapped_region # None
    /\ has_valid_strand' = hasValidStrand(m_read, overlapped_region)
    /\ m_pc' = "checked"
    /\ UNCHANGED << m_read, m_regions, m_offset, overlapped_region, mainVars, freqVars,
                    daemonVars >>

NextMatch == CallGetSourceRegion \/ CallHasValidStrand

SpecMatch == InitMatch /\ [][NextMatch]_vars

\* ------------------------------------------------------ variantsToFreq.py
\* The names bound in the script's global namespace when line 29 runs:
\* lines 1-5 and 13 import them, lines 7-8, 18-24 and 27-28 assign them.
\* "from VEPvcf import VEPVCFIO, getAlleleRecord" binds no name VEPvcf.
VtfGlobals ==
    { "os", "sys", "uuid", "argparse", "subprocess", "CURRENT_DIR", "LIB_DIR",
      "VEPVCFIO", "getAlleleRecord", "parser", "group_input", "group_output",
      "args", "variants", "current_vcf" }

\* record.chrom + ":" + str(record.pos)
posId(record) == record.chrom \o << ":" >> \o pyStr(record.pos)

\* Lines 43-53: the allele frequencies of one sample of one record, each a
\* pair << numerator, denominator >>, or the exception raised.
alleleFreq(record, spl_name) ==
    LET fields == record.samples[spl_name]
    IN  IF "AF" \in DOMAIN fields
        THEN [error |-> None, allele_freq |-> fields.AF]
        ELSE IF "AD" \in DOMAIN fields
        THEN IF Len(fields.AD) <= 1 THEN [error |-> None, allele_freq |-> << >>]
             ELSE IF "DP" \notin DOMAIN record.info
             THEN [error |-> [type |-> "KeyError", key |-> "DP"]]
             ELSE IF record.info.DP = 0
             THEN [error |-> [type |-> "ZeroDivisionError"]]
             ELSE [error |-> None,
                   allele_freq |-> [i \in 1..(Len(fields.AD) - 1) |->
                                       << fields.AD[i + 1], record.info.DP >>]]
        ELSE IF Cardinality(DOMAIN record.samples) <= 1 /\ "AF" \in DOMAIN record.info
        THEN [error |-> None, allele_freq |-> record.info.AF]
        ELSE [error |-> [type |-> "Exception", variant |-> posId(record)]]

\* Lines 55-58: alleles[alt][spl_name] = allele_freq[idx] for every alt.
RECURSIVE storeAlleles(_, _, _, _, _)
storeAlleles(alleles, alts, idx, spl_name, allele_freq) ==
    IF idx > Len(alts) THEN [error |-> None, alleles |-> alleles]
    ELSE IF idx > Len(allele_freq) THEN [error |-> [type |-> "IndexError"]]
    ELSE LET alt == alts[idx]
             by_spl == IF alt \in DOMAIN alleles THEN alleles[alt] ELSE EmptyDict
         IN  storeAlleles(dictSet(alleles, alt, dictSet(by_spl, spl_name, allele_freq[idx])),
                          alts, idx + 1, spl_name, allele_freq)

\* Lines 42-58: the loop over FH_vcf.samples.
RECURSIVE storeSamples(_, _, _)
storeSamples(alleles, record, samples) ==
    IF samples = << >> THEN [error |-> None, alleles |-> alleles]
    ELSE LET got == alleleFreq(record, Head(samples))
         IN  IF got.error # None THEN [error |-> got.error]
             ELSE LET stored == storeAlleles(alleles, record.alt, 1, Head(samples),
                                             got.allele_freq)
                  IN  IF stored.error # None THEN [error |-> stored.error]
                      ELSE storeSamples(stored.alleles, record, Tail(samples))

\* Lines 30-58: the loop over the records of one file.
RECURSIVE storeRecords(_, _, _)
storeRecords(known, records, samples) ==
    IF records = << >> THEN [error |-> None, variants |-> known]
    ELSE LET record == Head(records)
             pos_id == posId(record)
             entered == IF pos_id \in DOMAIN known THEN known
                        ELSE dictSet(known, pos_id,
                                     [chrom |-> record.chrom, pos |-> record.pos,
                                      alleles |-> EmptyDict, coverage |-> EmptyDict])
             stored == storeSamples(entered[pos_id].alleles, record, samples)
         IN  IF stored.error # None THEN [error |-> stored.error]
             ELSE storeRecords([entered EXCEPT ![pos_id].alleles = stored.alleles],
                               Tail(records), samples)

\* Lines 28-58: the loop over args.var_files. Line 29 looks the name VEPvcf
\* up before any file is opened.
RECURSIVE getVariants(_, _)
getVariants(known, files) ==
    IF files = << >> THEN [error |-> None, variants |-> known]
    ELSE IF "VEPvcf" \notin VtfGlobals
    THEN [error |-> [type |-> "NameError", name |-> "VEPvcf"]]
    ELSE LET stored == storeRecords(known, Head(files).records, Head(files).samples)
         IN  IF stored.error # None THEN [error |-> stored.error]
             ELSE getVariants(stored.variants, Tail(files))

\* Lines 26-58. An exception ends the run before the coverage (lines 60-91)
\* and the table (lines 93-103).
VtfGetVariants ==
    /\ vtf_pc = "start"
    /\ LET got == getVariants(EmptyDict, var_files)
       IN  IF got.error # None
           THEN /\ vtf_pc' = "aborted"
                /\ vtf_error' = got.error
                /\ UNCHANGED variants
           ELSE /\ vtf_pc' = "variants"
                /\ variants' = got.variants
                /\ UNCHANGED vtf_error
    /\ UNCHANGED << var_files, mainVars, matchVars, daemonVars >>

\* What a sample of a record can hold: AF, AD, both, or neither.
SampleFields ==
    { [AF |-> << << 1, 2 >> >>],
      [AD |-> << 6, 3 >>],
      [AF |-> << << 1, 2 >> >>, AD |-> << 6, 3 >>],
      [GT |-> 1] }

\* The shared info of a record: depth and frequency, depth alone, neither.
InfoFields == { [AF |-> << << 1, 3 >> >>, DP |-> 9], [DP |-> 9], [NS |-> 1] }

VcfRecords(samples) ==
    { [chrom |-> << "1" >>, pos |-> pos, alt |-> << "A" >>, samples |-> fields, info |-> info] :
        pos \in { 5, 7 },
        fields \in [{ samples[i] : i \in 1..Len(samples) } -> SampleFields],
        info \in InfoFields }

\* The VCF files of n records for the given samples.
VcfFiles(samples, n) ==
    { [samples |-> samples, records |-> records] :
        records \in [1..n -> VcfRecords(samples)] }

\* One VCF file: up to MaxRecords records of one sample, or one record of two.
InitFreq ==
    /\ \E samples \in { << "s1" >>, << "s1", "s2" >> } :
         \E n \in 1..MaxRecords :
            /\ Len(samples) = 2 => n = 1
            /\ \E f \in VcfFiles(samples, n) : var_files = << f >>
    /\ vtf_pc = "start"
    /\ vtf_error = None
    /\ variants = EmptyDict
    /\ input_panel = << >>
    /\ anchor_offset = DefaultAnchorOffset
    /\ InitMain
    /\ IdleMatch
    /\ IdleDaemon

SpecFreq == InitFreq /\ [][VtfGetVariants]_vars

\* ----------------------------------------------------------- autoRunWf.py
\* The names the listened folder can hold.
Filenames == { "runA", "runB" }

\* What SampleSheet.csv can hold in its header: the application, the workflow,
\* both, or no Application key at all.
SheetHeaders ==
    { [Application |-> "Amplicon - DS", Workflow |-> "Amplicon - DS"],
      [Application |-> "Resequencing", Workflow |-> "Amplicon - DS"],
      [Application |-> "Resequencing", Workflow |-> "Resequencing"],
      [Workflow |-> "Amplicon - DS"] }

\* Lines 60-73. The header is a dict: a key it lacks raises KeyError, and
\* `or` reads the Workflow key only if the Application is another one. The
\* workflow None of line 67 is the string "None" here.
getProtocol(header) ==
    IF "Application" \notin DOMAIN header
    THEN [error |-> "KeyError", workflow |-> "None"]
    ELSE IF header["Application"] = "Amplicon - DS"
    THEN [error |-> "none", workflow |-> "Amplicon - DS"]
    ELSE IF "Workflow" \notin DOMAIN header
    THEN [error |-> "KeyError", workflow |-> "None"]
    ELSE IF header["Workflow"] = "Amplicon - DS"
    THEN [error |-> "none", workflow |-> "Amplicon - DS"]
    ELSE [error |-> "none", workflow |-> "None"]

\* Lines 75-79.
getWorkflows(protocol) ==
    IF protocol.workflow = "Amplicon - DS"
    THEN << "ADIVaR", "AmpliconDS" >>
    ELSE << >>

Workflows == { "ADIVaR", "AmpliconDS" }

\* The commands of one visit of a run folder, in the order of their
\* execution; `fail` names the first one that exits with a non-zero status.
Commands == { "ADIVaR", "AmpliconDS", "cmd_copy_analysis", "cmd_rm_analysis",
              "cmd_copy_raw", "cmd_rm_run" }

\* Lines 56-58: subprocess.check_call raises on a non-zero exit status.
exec_cmd(cmd, fail) ==
    IF cmd = fail THEN "CalledProcessError" ELSE "none"

\* The workflow loop launching each workflow whether or not its output
\* folder exists.
RECURSIVE runWorkflowsAlways(_, _, _, _)
runWorkflowsAlways(wfs, filename, st, fail) ==
    IF wfs = << >> \/ st.error # "none"
    THEN st
    ELSE LET curr_wf == Head(wfs)
             out_wf_folder == << filename, curr_wf >>
         IN  runWorkflowsAlways(Tail(wfs), filename,
                 [st EXCEPT !.analysis = @ \cup { out_wf_folder },
                            !.launched[out_wf_folder] = @ + 1,
                            !.error = exec_cmd(curr_wf, fail)],
                 fail)

\* Lines 170-182: each workflow whose output folder exists is skipped with a
\* warning; the folder of another one is made, then its command is executed.
RECURSIVE runWorkflows(_, _, _, _)
runWorkflows(wfs, filename, st, fail) ==
    IF wfs = << >> \/ st.error # "none"
    THEN st
    ELSE LET curr_wf == Head(wfs)
             out_wf_folder == << filename, curr_wf >>
         IN  IF out_wf_folder \in st.analysis
             THEN runWorkflows(Tail(wfs), filename, st, fail)
             ELSE runWorkflows(Tail(wfs), filename,
                      [st EXCEPT !.analysis = @ \cup { out_wf_folder },
                                 !.launched[out_wf_folder] = @ + 1,
                                 !.error = exec_cmd(curr_wf, fail)],
                      fail)

\* Lines 184-189: the Illumina analysis is copied to the AmpliconDS folder
\* (rsync makes it and fails without its source), then removed from the run.
moveAlignment(filename, st, fail) ==
    IF st.error # "none"
    THEN st
    ELSE IF ~st.listened[filename].alignment
    THEN [st EXCEPT !.error = "CalledProcessError"]
    ELSE IF exec_cmd("cmd_copy_analysis", fail) # "none"
    THEN [st EXCEPT !.error = "CalledProcessError"]
    ELSE LET copied == [st EXCEPT !.analysis = @ \cup { << filename, "AmpliconDS" >> }]
         IN  IF exec_cmd("cmd_rm_analysis", fail) # "none"
             THEN [copied EXCEPT !.error = "CalledProcessError"]
             ELSE [copied EXCEPT !.listened[filename].alignment = FALSE]

\* Lines 191-194: the run folder is copied to the storage, then removed.
moveRaw(filename, st, fail) ==
    IF st.error # "none"
    THEN st
    ELSE IF exec_cmd("cmd_copy_raw", fail) # "none"
    THEN [st EXCEPT !.error = "CalledProcessError"]
    ELSE LET copied == [st EXCEPT !.storage[filename] = st.listened[filename].written]
         IN  IF exec_cmd("cmd_rm_run", fail) # "none"
             THEN [copied EXCEPT !.error = "CalledProcessError"]
             ELSE [copied EXCEPT !.listened[filename] = None]

\* Lines 161-194: the body of the for loop for one filename.
visit(filename, st, fail) ==
    LET in_run_folder == st.listened[filename]
    IN  IF in_run_folder = None \/ ~in_run_folder.isdir
        THEN st
        ELSE IF ~in_run_folder.completed
        THEN st
        ELSE LET made == [st EXCEPT !.analysis = @ \cup { << filename >> }]
                 protocol == getProtocol(in_run_folder.header)
             IN  IF protocol.error # "none"
                 THEN [made EXCEPT !.error = protocol.error]
                 ELSE LET analysed == runWorkflows(getWorkflows(protocol),
                                                   filename, made, fail)
                          moved == IF protocol.workflow = "Amplicon - DS"
                                   THEN moveAlignment(filename, analysed, fail)
                                   ELSE analysed
                      IN  moveRaw(filename, moved, fail)

\* The sequencer writes a run folder, or a plain file, under a free name.
RunFolder(header, written) ==
    [isdir |-> TRUE, completed |-> FALSE, header |-> header,
     alignment |-> TRUE, written |-> written]

PlainFile == [isdir |-> FALSE]

SequencerWrites(filename) ==
    /\ listened_folder[filename] = None
    /\ n_written[filename] < MaxRuns
    /\ n_written' = [n_written EXCEPT ![filename] = @ + 1]
    /\ \E entry \in { PlainFile }
                   \cup { RunFolder(header, n_written[filename] + 1) :
                          header \in SheetHeaders } :
          listened_folder' = [listened_folder EXCEPT ![filename] = entry]
    /\ UNCHANGED << analysis_folder, storage_folder, launched, d_pc, d_error,
                    d_todo >>
    /\ UNCHANGED << mainVars, matchVars, freqVars >>

\* The sequencer ends a run: CompletedJobInfo.xml appears in its folder.
SequencerCompletes(filename) ==
    /\ listened_folder[filename] # None
    /\ listened_folder[filename].isdir
    /\ ~listened_folder[filename].completed
    /\ listened_folder' = [listened_folder EXCEPT ![filename].completed = TRUE]
    /\ UNCHANGED << analysis_folder, storage_folder, launched, n_written, d_pc,
                    d_error, d_todo >>
    /\ UNCHANGED << mainVars, matchVars, freqVars >>

\* Lines 159-160: a pass starts with the listing of the listened folder.
StartPass ==
    /\ d_pc = "listing"
    /\ d_pc' = "pass"
    /\ d_todo' = { f \in Filenames : listened_folder[f] # None }
    /\ UNCHANGED << folderVars, d_error >>
    /\ UNCHANGED << mainVars, matchVars, freqVars >>

\* Lines 161-194: one iteration of the for loop, on any filename of the
\* listing (os.listdir gives them in arbitrary order).
VisitFolder(filename, fail) ==
    /\ d_pc = "pass"
    /\ filename \in d_todo
    /\ LET st == visit(filename,
                       [listened |-> listened_folder, analysis |-> analysis_folder,
                        storage |-> storage_folder, launched |-> launched,
                        error |-> "none"],
                       fail)
       IN  /\ listened_folder' = st.listened
           /\ analysis_folder' = st.analysis
           /\ storage_folder' = st.storage
           /\ launched' = st.launched
           /\ d_error' = st.error
           /\ d_pc' = IF st.error # "none" THEN "crashed" ELSE "pass"
           /\ d_todo' = IF st.error # "none" THEN {} ELSE d_todo \ { filename }
    /\ UNCHANGED n_written
    /\ UNCHANGED << mainVars, matchVars, freqVars >>

\* Line 195: the listing is exhausted, the daemon sleeps until the next pass.
EndPass ==
    /\ d_pc = "pass"
    /\ d_todo = {}
    /\ d_pc' = "listing"
    /\ UNCHANGED << folderVars, d_error, d_todo >>
    /\ UNCHANGED << mainVars, matchVars, freqVars >>

\* The daemon is started again after an exception ended it.
Restart ==
    /\ d_pc = "crashed"
    /\ d_pc' = "listing"
    /\ d_error' = "none"
    /\ UNCHANGED << folderVars, d_todo >>
    /\ UNCHANGED << mainVars, matchVars, freqVars >>

\* Lines 144-159: the daemon starts on an empty listened folder.
InitDaemon ==
    /\ listened_folder = [f \in Filenames |-> None]
    /\ analysis_folder = {}
    /\ storage_folder = [f \in Filenames |-> 0]
    /\ launched = [p \in Filenames \X Workflows |-> 0]
    /\ n_written = [f \in Filenames |-> 0]
    /\ d_pc = "listing"
    /\ d_error = "none"
    /\ d_todo = {}
    /\ input_panel = << >>
    /\ anchor_offset = DefaultAnchorOffset
    /\ InitMain
    /\ IdleMatch
    /\ IdleFreq

NextDaemon ==
    \/ \E filename \in Filenames : SequencerWrites(filename)
    \/ \E filename \in Filenames : SequencerCompletes(filename)
    \/ StartPass
    \/ \E filename \in Filenames, fail \in Commands \cup { "none" } :
          VisitFolder(filename, fail)
    \/ EndPass
    \/ Restart

SpecDaemon == InitDaemon /\ [][NextDaemon]_vars

\* ============================================================ properties
\* ---------------------------------------------------------------- panel
\* The data lines of the panel file, in file order.
dataLines == SelectSeq(input_panel, LAMBDA line : ~skippedLine(line))

\* What a data line says, field by field, when it is well formed.
lineArea(line) ==
    [region |-> strip(line.fields[1]),
     start |-> pyInt(line.fields[2]).val + 1,
     end |-> pyInt(line.fields[3]).val,
     id |-> strip(line.fields[4]),
     strand |-> strip(line.fields[6])]

malformedLine(line) ==
    \/ Len(line.fields) < 6
    \/ ~pyInt(line.fields[2]).ok
    \/ ~pyInt(line.fields[3]).ok

occurrences(seq, x) == Cardinality({ i \in 1..Len(seq) : seq[i] = x })

\* C1: for a well-formed panel the mapping returned by getSelectedAreasByChr
\* holds every data line's interval exactly as often as the file does, under
\* its own chromosome and under no other, and every chromosome's list is
\* ascending by (start, end).
C1_GroupedSortedComplete ==
    pc = "loaded" =>
        LET areas == [i \in 1..Len(dataLines) |-> lineArea(dataLines[i])]
            chroms == DOMAIN panel_regions
        IN  /\ \A i \in 1..Len(areas) : areas[i].region \in chroms
            /\ \A c \in chroms :
                  LET list == panel_regions[c]
                  IN  /\ \A i \in 1..Len(list) :
                            /\ list[i].region = c
                            /\ occurrences(list, list[i]) = occurrences(areas, list[i])
                      /\ \A i \in 1..Len(list) : \A j \in 1..Len(list) :
                            i < j =>
                              \/ list[i].start < list[j].start
                              \/ list[i].start = list[j].start /\ list[i].end <= list[j].end
            /\ \A i \in 1..Len(areas) :
                  occurrences(panel_regions[areas[i].region], areas[i])
                      = occurrences(areas, areas[i])

\* A loaded panel of two chromosomes whose file order is not the sorted order.
C1_Witness ==
    /\ pc = "loaded"
    /\ Cardinality(DOMAIN panel_regions) >= 2
    /\ \E c \in DOMAIN panel_regions : Len(panel_regions[c]) >= 2
    /\ \E i \in 1..Len(dataLines) : \E j \in 1..Len(dataLines) :
          i < j /\ areaKeyLess(lineArea(dataLines[j]), lineArea(dataLines[i]))

\* C8: loading fails, and assigns no index, exactly when some data line has
\* fewer than 6 fields or a start or end that is no integer.
C8_MalformedPanelFails ==
    pc # "start" =>
        LET bad == \E i \in 1..Len(dataLines) : malformedLine(dataLines[i])
        IN  /\ bad => pc = "crashed" /\ error # "none" /\ panel_regions = EmptyDict
            /\ ~bad => pc = "loaded" /\ error = "none"

\* A failed load whose bad line, one field short, follows a good data line.
C8_Witness ==
    /\ pc = "crashed"
    /\ Len(dataLines) >= 2
    /\ ~malformedLine(dataLines[1])
    /\ Len(dataLines[2].fields) = 5
    /\ pyInt(dataLines[2].fields[2]).ok
    /\ pyInt(dataLines[2].fields[3]).ok

\* C9: a panel in which two data lines carry the same id is not loaded, so
\* in every index that is returned no id occurs in two intervals.
C9_DuplicateIdRejected ==
    pc = "loaded" =>
        \A c \in DOMAIN panel_regions : \A d \in DOMAIN panel_regions :
            \A i \in 1..Len(panel_regions[c]) : \A j \in 1..Len(panel_regions[d]) :
                panel_regions[c][i].id = panel_regions[d][j].id => c = d /\ i = j

\* ------------------------------------------------------------ read loop
\* A paired, mapped, non-secondary read.
pairedMapped(read) ==
    /\ ~read.is_secondary
    /\ read.is_paired
    /\ ~read.is_unmapped
    /\ ~read.mate_is_unmapped

\* The matcher returns an interval for the read and the strand validator
\* refuses it.
strandInvalid(read) ==
    /\ pairedMapped(read)
    /\ read.reference_name \in DOMAIN panel_regions
    /\ LET region == getSourceRegion(read, panel_regions[read.reference_name],
                                     anchor_offset)
       IN  region # None /\ ~hasValidStrand(read, region)

\* An iteration of the read loop has just run.
readFetched == pc = "reads" /\ n_fetched' = n_fetched + 1

\* C6: a paired, mapped, non-secondary read that the matcher places and the
\* strand validator refuses increments reverse_reads (Cross_panel) and
\* total_reads only; it is not tagged, not buffered and not written.
C6_StrandInvalidOnlyCrossPanel ==
    [][ (readFetched /\ strandInvalid(curr_read')) =>
            /\ reverse_reads' = reverse_reads + 1
            /\ total_reads' = total_reads + 1
            /\ UNCHANGED << unpaired_reads, unmapped_pairs, out_target_reads,
                            valid_reads, valid_reads_valid_pair >>
            /\ curr_read'.RG = << >>
            /\ valid_reads_by_id' = valid_reads_by_id
            /\ FH_out' = FH_out ]_vars

\* A strand-invalid read has been counted while a valid read of the same
\* query name waits in the buffer.
C6_Witness ==
    /\ pc = "reads"
    /\ curr_read # None
    /\ strandInvalid(curr_read)
    /\ reverse_reads >= 1
    /\ curr_read.query_name \in DOMAIN valid_reads_by_id
    /\ valid_reads_by_id[curr_read.query_name] # None
    /\ FH_out = << >>

\* C7: a paired, mapped read on a chromosome the index has no entry for
\* raises no error and is counted as Out_target, and the loop goes on.
C7_MissingChromosomeOutTarget ==
    [][ (readFetched /\ pairedMapped(curr_read')
            /\ curr_read'.reference_name \notin DOMAIN panel_regions) =>
            /\ pc' = "reads"
            /\ error' = "none"
            /\ out_target_reads' = out_target_reads + 1
            /\ total_reads' = total_reads + 1
            /\ UNCHANGED << unpaired_reads, unmapped_pairs, reverse_reads,
                            valid_reads, valid_reads_valid_pair >>
            /\ valid_reads_by_id' = valid_reads_by_id
            /\ FH_out' = FH_out ]_vars

\* A read on chromosome X has been counted as Out_target and the loop is
\* still running.
C7_Witness ==
    /\ pc = "reads"
    /\ error = "none"
    /\ panel_regions # EmptyDict
    /\ out_target_reads >= 1
    /\ total_reads = out_target_reads
    /\ curr_read # None
    /\ pairedMapped(curr_read)
    /\ curr_read.reference_name \notin DOMAIN panel_regions

\* The five categories' counters, summed.
categorised ==
    unpaired_reads + unmapped_pairs + out_target_reads + reverse_reads
    + valid_reads

\* C13: after any prefix of the stream, total_reads is the sum of the five
\* categories' counters; an iteration on a non-secondary read adds one to
\* total_reads and one to exactly one category; an iteration on a secondary
\* read changes no counter and neither writes nor buffers the read.
C13_OneCategoryPerRead ==
    [][ readFetched =>
            /\ total_reads' = categorised'
            /\ IF curr_read'.is_secondary
               THEN /\ UNCHANGED countVars
                    /\ FH_out' = FH_out
                    /\ valid_reads_by_id' = valid_reads_by_id
               ELSE /\ total_reads' = total_reads + 1
                    /\ categorised' = categorised + 1
                    /\ unpaired_reads' >= unpaired_reads
                    /\ unmapped_pairs' >= unmapped_pairs
                    /\ out_target_reads' >= out_target_reads
                    /\ reverse_reads' >= reverse_reads
                    /\ valid_reads' >= valid_reads ]_vars

\* A secondary read has just been fetched after a valid and a strand-invalid
\* read: three reads fetched, two counted.
C13_Witness ==
    /\ pc = "reads"
    /\ n_fetched = 3
    /\ curr_read # None
    /\ curr_read.is_secondary
    /\ total_reads = 2
    /\ valid_reads = 1
    /\ reverse_reads = 1

\* The matcher returns an interval for the read and the strand validator
\* accepts it.
matchedStrandValid(read) ==
    /\ pairedMapped(read)
    /\ read.reference_name \in DOMAIN panel_regions
    /\ LET region == getSourceRegion(read, panel_regions[read.reference_name],
                                     anchor_offset)
       IN  region # None /\ hasValidStrand(read, region)

\* The positions of the output holding a read of the query name.
writtenOf(out, qname) == { i \in DOMAIN out : out[i].query_name = qname }

\* C12: the first matched, strand-valid read of a query name is held in the
\* buffer and not written; when a second such read of the name arrives, the
\* buffered read then the new one are written. Every read written is matched
\* and strand-valid and so is another written read of its query name; no
\* other iteration writes or buffers; a read still buffered has no read of
\* its name in the output, and the end of the stream writes nothing.
C12_WrittenOnlyInValidPairs ==
    [][ /\ readFetched =>
              LET qname == curr_read'.query_name
              IN  IF ~matchedStrandValid(curr_read')
                  THEN /\ FH_out' = FH_out
                       /\ valid_reads_by_id' = valid_reads_by_id
                  ELSE IF qname \notin DOMAIN valid_reads_by_id
                  THEN /\ FH_out' = FH_out
                       /\ valid_reads_by_id'
                            = dictSet(valid_reads_by_id, qname, curr_read')
                  ELSE valid_reads_by_id[qname] # None
                          => FH_out' = FH_out \o << valid_reads_by_id[qname],
                                                   curr_read' >>
        /\ \A i \in DOMAIN FH_out' :
              /\ matchedStrandValid(FH_out'[i])
              /\ \E j \in writtenOf(FH_out', FH_out'[i].query_name) :
                    j # i /\ matchedStrandValid(FH_out'[j])
        /\ \A qname \in DOMAIN valid_reads_by_id' :
              valid_reads_by_id'[qname] # None => writtenOf(FH_out', qname) = {}
        /\ ~readFetched => FH_out' = FH_out
      ]_vars

\* The stream has ended: the two valid reads of one query name are in the
\* output, buffered read first, and the valid read of the other name, whose
\* mate never came, is still in the buffer.
C12_Witness ==
    /\ pc = "done"
    /\ Len(FH_out) = 2
    /\ FH_out[1].query_name = FH_out[2].query_name
    /\ FH_out[1] # FH_out[2]
    /\ FH_out[2] = curr_read
    /\ \E qname \in DOMAIN valid_reads_by_id :
          /\ valid_reads_by_id[qname] # None
          /\ qname # FH_out[1].query_name

\* C14: at any point of the run, the Valid count reported
\* (valid_reads_valid_pair) is the number of reads written to the output, is
\* even, and is at most valid_reads.
C14_ValidCountIsWritten ==
    /\ valid_reads_valid_pair = Len(FH_out)
    /\ valid_reads_valid_pair % 2 = 0
    /\ valid_reads_valid_pair <= valid_reads

\* -------------------------------------------------------------- matcher
\* The positional match condition of the specification.
eligible(read, region, offset) ==
    IF read.is_reverse
    THEN region.end - offset <= read.reference_end /\ read.reference_end <= region.end
    ELSE region.start <= read.reference_start + 1
         /\ read.reference_start + 1 <= region.start + offset

eligibleRegions == { i \in 1..Len(m_regions) : eligible(m_read, m_regions[i], m_offset) }

\* C2: getSourceRegion returns the first interval, in list order, that
\* satisfies the positional match condition, and None only when none does.
C2_FirstEligibleReturned ==
    m_pc \in {"matched", "checked"} =>
        IF eligibleRegions = {}
        THEN overlapped_region = None
        ELSE overlapped_region =
                 m_regions[CHOOSE i \in eligibleRegions : \A j \in eligibleRegions : i <= j]

\* C3: a reverse read that ends at end - anchor_offset of an interval of the
\* list is matched, and one that ends one base before is not matched to it.
C3_ReverseBoundary ==
    (m_pc \in {"matched", "checked"} /\ m_read.is_reverse) =>
        \A i \in 1..Len(m_regions) :
            /\ m_read.reference_end = m_regions[i].end - m_offset
                   => overlapped_region # None
            /\ m_read.reference_end = m_regions[i].end - m_offset - 1
                   => overlapped_region # m_regions[i]

\* C4: a forward read whose 1-based start is start + anchor_offset of an
\* interval of the list is matched, and one that starts one base further is
\* not matched to it.
C4_ForwardBoundary ==
    (m_pc \in {"matched", "checked"} /\ ~m_read.is_reverse) =>
        \A i \in 1..Len(m_regions) :
            /\ m_read.reference_start + 1 = m_regions[i].start + m_offset
                   => overlapped_region # None
            /\ m_read.reference_start + 1 = m_regions[i].start + m_offset + 1
                   => overlapped_region # m_regions[i]

\* A forward read on the far end of the tolerance of the list's second
\* interval, and of no other, is matched to it.
C4_Witness ==
    /\ m_pc = "matched"
    /\ ~m_read.is_reverse
    /\ m_offset > 0
    /\ Len(m_regions) >= 2
    /\ m_read.reference_start + 1 = m_regions[2].start + m_offset
    /\ m_regions[1].start + m_offset < m_regions[2].start
    /\ overlapped_region = m_regions[2]

\* C5: hasValidStrand is true exactly for read1/reverse/-, read1/forward/+,
\* read2/reverse/+ and read2/forward/-.
C5_StrandTable ==
    m_pc = "checked" =>
        LET minus == overlapped_region.strand = << "-" >>
            plus == overlapped_region.strand = << "+" >>
            r1 == m_read.is_read1
            rev == m_read.is_reverse
        IN  /\ has_valid_strand <=>
                   \/ r1 /\ rev /\ minus
                   \/ r1 /\ ~rev /\ plus
                   \/ ~r1 /\ rev /\ plus
                   \/ ~r1 /\ ~rev /\ minus
            /\ has_valid_strand <=> (minus <=> (r1 <=> rev))

\* The pair's second read, reverse, on a + interval: valid.
C5_Witness ==
    /\ m_pc = "checked"
    /\ ~m_read.is_read1
    /\ m_read.is_reverse
    /\ overlapped_region.strand = << "+" >>
    /\ has_valid_strand

\* ------------------------------------------------------- variantsToFreq
\* Whether the record offers a sample one of the three encodings.
hasEncoding(record, spl_name) ==
    \/ "AF" \in DOMAIN record.samples[spl_name]
    \/ "AD" \in DOMAIN record.samples[spl_name]
    \/ Cardinality(DOMAIN record.samples) <= 1 /\ "AF" \in DOMAIN record.info

\* The frequencies the three encodings give a sample of a record.
encodedFreq(record, spl_name) ==
    LET fields == record.samples[spl_name]
    IN  IF "AF" \in DOMAIN fields THEN fields.AF
        ELSE IF "AD" \in DOMAIN fields
        THEN [i \in 1..(Len(fields.AD) - 1) |-> << fields.AD[i + 1], record.info.DP >>]
        ELSE record.info.AF

\* C10: once the variants of the VCF file have been read, either some
\* record offers a sample none of the three encodings and the run has
\* aborted with an error naming the first such record's chrom:pos, or the
\* run goes on and the last record of each position gave every sample its
\* frequency from AF, else AD/DP, else the record-level AF.
C10_FrequencySourceOrAbort ==
    vtf_pc # "start" =>
        LET file == var_files[1]
            records == file.records
            lacking == { i \in 1..Len(records) :
                           \E s \in 1..Len(file.samples) :
                               ~hasEncoding(records[i], file.samples[s]) }
        IN  IF lacking # {}
            THEN /\ vtf_pc = "aborted"
                 /\ vtf_error =
                        [type |-> "Exception",
                         variant |-> posId(records[CHOOSE i \in lacking :
                                                      \A j \in lacking : i <= j])]
            ELSE /\ vtf_pc = "variants"
                 /\ \A i \in 1..Len(records) : \A s \in 1..Len(file.samples) :
                        (\A j \in (i + 1)..Len(records) : records[j].pos # records[i].pos) =>
                            variants[posId(records[i])].alleles[records[i].alt[1]][file.samples[s]]
                                = encodedFreq(records[i], file.samples[s])[1]


\* ------------------------------------------------------------- autoRunWf
\* The filename holds a run folder with CompletedJobInfo.xml.
isComplete(filename) ==
    /\ listened_folder[filename] # None
    /\ listened_folder[filename].isdir
    /\ listened_folder[filename].completed

\* The folders the analysis folder holds for a filename.
analysisOf(folders, filename) == { path \in folders : path[1] = filename }

\* C11: over the passes of the daemon, a workflow command is executed for a
\* run folder only if the folder holds CompletedJobInfo.xml at that pass and
\* the workflow's output folder did not exist before, so each (run, workflow)
\* pair is launched at most once; a run folder without CompletedJobInfo.xml
\* is left untouched by the daemon; and a run folder leaves the listened
\* folder only in a step that has handled its workflows and copied its raw
\* data to the storage.
C11_LaunchGuardedAndOnce ==
    [][ \A filename \in Filenames :
          LET run == listened_folder[filename]
          IN  /\ \A wf \in Workflows :
                    LET out_wf_folder == << filename, wf >>
                    IN  /\ launched'[out_wf_folder] # launched[out_wf_folder]
                            => /\ isComplete(filename)
                               /\ out_wf_folder \notin analysis_folder
                               /\ out_wf_folder \in analysis_folder'
                        /\ launched'[out_wf_folder] <= 1
              /\ (run # None /\ ~isComplete(filename))
                    => /\ listened_folder'[filename] = run
                          \/ /\ run.isdir
                             /\ listened_folder'[filename]
                                  = [run EXCEPT !.completed = TRUE]
                       /\ analysisOf(analysis_folder', filename)
                            = analysisOf(analysis_folder, filename)
                       /\ storage_folder'[filename] = storage_folder[filename]
              /\ (run # None /\ listened_folder'[filename] = None)
                    => /\ isComplete(filename)
                       /\ storage_folder'[filename] = run.written
                       /\ \A i \in DOMAIN getWorkflows(getProtocol(run.header)) :
                             << filename, getWorkflows(getProtocol(run.header))[i] >>
                                \in analysis_folder'
      ]_vars

\* A run was analysed, stored and removed, its name was written and handled
\* a second time, and each of its workflows was launched once; meanwhile
\* another run folder waits without CompletedJobInfo.xml, untouched.
C11_Witness ==
    \E filename, other \in Filenames :
        /\ listened_folder[filename] = None
        /\ storage_folder[filename] = 2
        /\ \A wf \in Workflows : launched[<< filename, wf >>] = 1
        /\ listened_folder[other] # None
        /\ listened_folder[other].isdir
        /\ ~listened_folder[other].completed
        /\ analysisOf(analysis_folder, other) = {}
====
